---- MODULE Spec2Model ----
(***************************************************************************)
(* Model of noc-oracle: NOCEngine (src/src/engine.py) driven by the        *)
(* Streamlit page main() (src/src/app.py).                                 *)
(*                                                                         *)
(* Text is a sequence of strings.  Text the program inspects character by  *)
(* character (queries, passage content, metadata) is a sequence of         *)
(* one-character strings; literal pieces of the prompt templates, which    *)
(* the program only concatenates, are kept as single fragments.            *)
(***************************************************************************)
EXTENDS FiniteSets, Integers, Sequences, TLC

\* ------------------------------------------------------------------- state
VARIABLES
    api_key,          \* os.getenv("GEMINI_API_KEY"): [present, value]
    engine,           \* what st.cache_resource holds for init_engine: "none" | "cached"
    handles,          \* collaborator handles constructed so far in this process
    pc,               \* position of the current run of main()
    query,            \* st.text_area value
    show_comparison,  \* st.checkbox value
    raw_docs,         \* get_solution: raw_docs
    query_codes,      \* get_solution: query_codes
    norm_query_codes, \* get_solution: norm_query_codes, <<>> while unbound
    ranked,           \* get_solution: final_docs when line 86 is reached
    final_docs,       \* get_solution: final_docs after line 86
    calls,            \* collaborator calls made in this run, in order, each with
                      \* its status ("pending" | "returned" | "raised") and the
                      \* text it returned or the description of its failure
    outcome,          \* how the engine method last called ended: "none" | "returned" | "raised"
    result,           \* main: result (the dict get_solution returned)
    answer_baseline,  \* main: answer_baseline, <<>> while None
    st_error,         \* text shown by st.error in this run, <<>> if none
    ipc,              \* position of ingest_manual(), "idle" while it is not run
    manual_exists,    \* data/manuals/orbit_5g_guide.md exists
    db_exists,        \* ./chroma_db exists
    io_log,           \* calls of ingest_manual on the directory and the index, in order
    split_docs,       \* what markdown_splitter.split_text returned
    ingest_docs,      \* ingest_manual: docs, after the loop of lines 46-49
    indexed           \* the documents given to Chroma.from_documents

vars == <<api_key, engine, handles, pc, query, show_comparison, raw_docs,
          query_codes, norm_query_codes, ranked, final_docs, calls, outcome, result,
          answer_baseline, st_error, ipc, manual_exists, db_exists, io_log, split_docs,
          ingest_docs, indexed>>

\* ------------------------------------------------------------------ bounds
\* longest raw list the retriever returns in the model (the code asks for K)
MaxRaw == 4

\* longest text drawn over TextAlphabet for the extractor
MaxText == 4

\* most passages the markdown splitter returns in the model
MaxChunks == 2

\* ------------------------------------------------------- program constants
K == 10        \* fan-out passed to similarity_search
TopN == 3      \* length kept by the trim

\* -------------------------------------------------------------- characters
LowerLetters == <<"a","b","c","d","e","f","g","h","i","j","k","l","m",
                  "n","o","p","q","r","s","t","u","v","w","x","y","z">>
UpperLetters == <<"A","B","C","D","E","F","G","H","I","J","K","L","M",
                  "N","O","P","Q","R","S","T","U","V","W","X","Y","Z">>
DigitChars == <<"0","1","2","3","4","5","6","7","8","9">>

Range(s) == {s[i] : i \in DOMAIN s}

Letters == Range(LowerLetters) \cup Range(UpperLetters)
Digits == Range(DigitChars)

\* [A-Za-z]
IsLetter(c) == c \in Letters
\* \d
IsDigit(c) == c \in Digits
\* \w
IsWord(c) == IsLetter(c) \/ IsDigit(c) \/ c = "_"

\* mutant: swapcase() instead of upper()
UpperChar_Swap(c) ==
    IF c \in Range(LowerLetters)
    THEN UpperLetters[CHOOSE i \in DOMAIN LowerLetters : LowerLetters[i] = c]
    ELSE IF c \in Range(UpperLetters)
    THEN LowerLetters[CHOOSE i \in DOMAIN UpperLetters : UpperLetters[i] = c]
    ELSE c

\* str.upper() on one character
UpperChar(c) ==
    IF c \in Range(LowerLetters)
    THEN UpperLetters[CHOOSE i \in DOMAIN LowerLetters : LowerLetters[i] = c]
    ELSE c

\* s.upper()
Upper(s) == [i \in DOMAIN s |-> UpperChar(s[i])]

\* s.replace("-", "")
RECURSIVE RemoveHyphens(_)
RemoveHyphens(s) ==
    IF s = <<>> THEN <<>>
    ELSE IF Head(s) = "-" THEN RemoveHyphens(Tail(s))
         ELSE <<Head(s)>> \o RemoveHyphens(Tail(s))

\* c.replace("-", "").upper()
Normalize(s) == Upper(RemoveHyphens(s))

\* code in doc_blob  (substring containment)
Contains(blob, code) ==
    \E i \in 0..(Len(blob) - Len(code)) : SubSeq(blob, i + 1, i + Len(code)) = code

\* ------------------------------------------------- _extract_error_codes
\* mutant: the pattern without its two \b
BoundaryAt_None(text, i) == TRUE

\* \b at the gap before character i (1-based), i in 1..Len(text)+1
WordAt(text, i) == i \in DOMAIN text /\ IsWord(text[i])
BoundaryAt(text, i) == WordAt(text, i - 1) # WordAt(text, i)

AllLetters(text, a, b) == \A k \in a..b : IsLetter(text[k])
AllDigits(text, a, b) == \A k \in a..b : IsDigit(text[k])

\* the ends j (exclusive) of the matches of \b[A-Za-z]+-?\d+\b starting at i
MatchEnds(text, i) ==
    {j \in (i + 2)..(Len(text) + 1) :
        /\ BoundaryAt(text, i)
        /\ BoundaryAt(text, j)
        /\ \E l \in i..(j - 2) :          \* last letter
             /\ AllLetters(text, i, l)
             /\ \/ AllDigits(text, l + 1, j - 1)
                \/ /\ l + 2 <= j - 1
                   /\ text[l + 1] = "-"
                   /\ AllDigits(text, l + 2, j - 1)}

Max(S) == CHOOSE x \in S : \A y \in S : y <= x

\* re.findall: leftmost match, then continue after it
RECURSIVE FindAllFrom(_, _)
FindAllFrom(text, i) ==
    IF i > Len(text) THEN <<>>
    ELSE IF MatchEnds(text, i) # {}
         THEN LET j == Max(MatchEnds(text, i))
              IN  <<SubSeq(text, i, j - 1)>> \o FindAllFrom(text, j)
         ELSE FindAllFrom(text, i + 1)

_extract_error_codes(text) == FindAllFrom(text, 1)

\* ---------------------------------------------------------------- passages
\* metadata keys written by the ingestor's splitter
Category == <<"C","a","t","e","g","o","r","y">>
Error_Code == <<"E","r","r","o","r","_","C","o","d","e">>

\* repr() of a str without quotes or escapes in it
Repr(s) == <<"'">> \o s \o <<"'">>

\* str(doc.metadata): metadata is a sequence of <<key, value>> pairs in
\* insertion order
RECURSIVE StrItems(_)
StrItems(items) ==
    IF items = <<>> THEN <<>>
    ELSE Repr(items[1][1]) \o <<":", " ">> \o Repr(items[1][2])
         \o (IF Len(items) > 1 THEN <<",", " ">> ELSE <<>>)
         \o StrItems(Tail(items))

StrMetadata(metadata) == <<"{">> \o StrItems(metadata) \o <<"}">>

\* passages the vector store holds
DocE101 == [page_content |-> <<"E","-","1","0","1"," ","p","s","u">>,
            metadata |-> << <<Category, <<"H","W">> >>,
                            <<Error_Code, <<"E","-","1","0","1">> >> >>]
DocS304 == [page_content |-> <<"f","i","b","e","r">>,
            metadata |-> << <<Category, <<"S","W">> >>,
                            <<Error_Code, <<"S","-","3","0","4">> >> >>]
DocFan  == [page_content |-> <<"f","a","n"," ","s","3","0","4">>,
            metadata |-> << >>]
Passages == {DocE101, DocS304, DocFan}

\* what similarity_search(query, k=10) can return
RECURSIVE SeqsUpTo(_, _)
SeqsUpTo(S, n) ==
    IF n = 0 THEN {<<>>}
    ELSE LET shorter == SeqsUpTo(S, n - 1)
         IN  shorter \cup {Append(s, x) : s \in {t \in shorter : Len(t) = n - 1}, x \in S}

Min(a, b) == IF a <= b THEN a ELSE b
RawLists == SeqsUpTo(Passages, Min(K, MaxRaw))

\* text typed into the query box
QueryFixS304 == <<"f","i","x"," ","S","-","3","0","4">>
QueryE101    == <<"e","1","0","1">>
Query304     == <<"3","0","4">>
QueryX9      == <<"X","9"," ","?">>
QueryE10     == <<"E","1","0">>
QueryEmpty   == <<>>
Queries == {QueryFixS304, QueryE101, Query304, QueryX9, QueryE10, QueryEmpty}

\* text the generator returns, and descriptions of collaborator failures
Completions == {<<"Check the fiber connection.">>,
                <<"Procedure not found in standard operating manual.">>}
Failures == {<<"DB Connection Failed">>, <<"429 quota exceeded">>}

\* --------------------------------------------------- get_solution, steps 2-3
\* mutant: only the content is searched, not the metadata
doc_blob_ContentOnly(doc) == Normalize(doc.page_content)

\* doc_blob = (doc.page_content + str(doc.metadata)).replace("-", "").upper()
doc_blob(doc) == Normalize(doc.page_content \o StrMetadata(doc.metadata))

\* norm_query_codes = [c.replace("-", "").upper() for c in query_codes]
NormalizeAll(codes) == [i \in DOMAIN codes |-> Normalize(codes[i])]

\* doc_blob of each passage of the store, computed once
doc_blobs == [doc \in Passages |-> doc_blob(doc)]

\* any(code in doc_blob for code in norm_query_codes)
IsPriority(doc, codes) ==
    \E i \in DOMAIN codes : Contains(doc_blobs[doc], Normalize(codes[i]))

\* mutant: the loop inserts at the front of each list instead of appending
RECURSIVE PartitionLoop_Prepend(_, _, _, _)
PartitionLoop_Prepend(raw, i, codes, parts) ==
    IF i > Len(raw) THEN parts
    ELSE PartitionLoop_Prepend(raw, i + 1, codes,
            IF IsPriority(raw[i], codes)
            THEN << <<raw[i]>> \o parts[1], parts[2]>>
            ELSE <<parts[1], <<raw[i]>> \o parts[2]>>)

\* the loop over raw_docs; parts = <<priority_docs, other_docs>>
RECURSIVE PartitionLoop(_, _, _, _)
PartitionLoop(raw, i, codes, parts) ==
    IF i > Len(raw) THEN parts
    ELSE PartitionLoop(raw, i + 1, codes,
            IF IsPriority(raw[i], codes)
            THEN <<Append(parts[1], raw[i]), parts[2]>>
            ELSE <<parts[1], Append(parts[2], raw[i])>>)

\* mutant: only the matching passages are kept
Rerank_MatchesOnly(raw, codes) ==
    IF codes # <<>>
    THEN PartitionLoop(raw, 1, codes, << <<>>, <<>> >>)[1]
    ELSE raw

\* mutant: the else branch is missing, final_docs stays [] without codes
Rerank_NoElse(raw, codes) ==
    IF codes # <<>>
    THEN LET parts == PartitionLoop(raw, 1, codes, << <<>>, <<>> >>)
         IN  parts[1] \o parts[2]
    ELSE <<>>

\* final_docs before the trim
Rerank(raw, codes) ==
    IF codes # <<>>
    THEN LET parts == PartitionLoop(raw, 1, codes, << <<>>, <<>> >>)
         IN  parts[1] \o parts[2]
    ELSE raw

\* mutant: the trim is missing
Trim_Missing(docs) == docs

\* final_docs[:3]
Trim(docs) == SubSeq(docs, 1, Min(TopN, Len(docs)))

\* mutant: the empty check is missing
IsEmpty_Never(docs) == FALSE

\* not final_docs
IsEmpty(docs) == Len(docs) = 0

\* ------------------------------------------------------ get_solution, step 4
\* str(i) for the ranks that occur
StrRank(i) == <<DigitChars[i + 1]>>

\* mutant: enumerate(final_docs) without the start value
ChunkText_ZeroBased(i, doc) ==
    <<"Context Chunk ">> \o <<DigitChars[i]>> \o <<":\n">> \o doc.page_content \o <<"\n">>

\* chunk_text = f"Context Chunk {i}:\n{doc.page_content}\n"
ChunkText(i, doc) ==
    <<"Context Chunk ">> \o StrRank(i) \o <<":\n">> \o doc.page_content \o <<"\n">>

\* "\n---\n".join(context_parts) with enumerate(final_docs, 1)
RECURSIVE JoinChunks(_, _)
JoinChunks(docs, i) ==
    IF i > Len(docs) THEN <<>>
    ELSE ChunkText(i, docs[i])
         \o (IF i < Len(docs) THEN <<"\n---\n">> ELSE <<>>)
         \o JoinChunks(docs, i + 1)

PromptHead == <<"You are a Level 3 Field Engineer. Use ONLY the context below to answer. Context: ">>
PromptQuestion == <<"Question: ">>
PromptTail == <<"If the answer is not in the context, say \"Procedure not found in standard operating manual.\"">>

BuildPrompt(docs, q) ==
    PromptHead \o JoinChunks(docs, 1) \o PromptQuestion \o q \o PromptTail

\* mutant: an empty result is reported as a failure
NotFoundResult_AsError ==
    [answer |-> <<"Error processing request: ", "no documents">>, source_documents |-> <<>>]

NotFoundAnswer == <<"No relevant information found.">>
\* the dict returned at line 89
NotFoundResult == [answer |-> NotFoundAnswer, source_documents |-> <<>>]

\* mutant: the except clause returns the passages retrieved so far
ErrorResult_KeepsDocs(e) ==
    [answer |-> <<"Error processing request: ">> \o e, source_documents |-> final_docs]

ErrorMarker == <<"Error processing request: ">>
ErrorResult(e) == [answer |-> ErrorMarker \o e, source_documents |-> <<>>]

SuccessResult(text, docs) == [answer |-> text, source_documents |-> docs]

\* ----------------------------------------------------- get_baseline_response
\* mutant: the baseline prompt is given the retrieved context
BaselinePrompt_WithContext(q) == BuildPrompt(final_docs, q)

BaselineHead == <<"You are a helpful technical support assistant. The user is asking a technical question about a telecom base station. Question: ">>
BaselineTail == <<"Provide a technical resolution step-by-step.">>
BaselinePrompt(q) == BaselineHead \o q \o BaselineTail

BaselineMarker == <<"Error generating baseline: ">>
BaselineError(e) == BaselineMarker \o e

process_vars == <<api_key, engine, handles>>
ingest_vars == <<ipc, manual_exists, db_exists, io_log, split_docs, ingest_docs, indexed>>
app_vars == <<engine, handles, pc, query, show_comparison, raw_docs, query_codes,
              norm_query_codes, ranked, final_docs, calls, outcome, result,
              answer_baseline, st_error>>

\* ingest_manual is not run
IngestIdle ==
    /\ ipc = "idle"
    /\ manual_exists = FALSE
    /\ db_exists = TRUE
    /\ io_log = <<>>
    /\ split_docs = <<>>
    /\ ingest_docs = <<>>
    /\ indexed = <<>>
solution_locals == <<raw_docs, query_codes, norm_query_codes, ranked, final_docs>>

NoResult == [answer |-> <<>>, source_documents |-> <<>>]

ApiKeys == {[present |-> FALSE, value |-> <<>>],
            [present |-> TRUE,  value |-> <<>>],
            [present |-> TRUE,  value |-> <<"k","e","y">>]}

\* mutant: api_key is None instead of not api_key
KeyMissing_OnlyNone(k) == ~k.present

\* not api_key
KeyMissing(k) == ~k.present \/ k.value = <<>>

\* handles NOCEngine.__init__ creates, in order
HandleOrder == <<"model", "embeddings", "vectorstore">>
HandlesBefore(n) == {HandleOrder[i] : i \in 1..(n - 1)}

Call(callee, caller, arg) ==
    [callee |-> callee, caller |-> caller, arg |-> arg, status |-> "pending", value |-> <<>>,
     k |-> IF callee = "similarity_search" THEN K ELSE 0]

\* the call in flight ends
Settle(cs, status, value) ==
    [cs EXCEPT ![Len(cs)].status = status, ![Len(cs)].value = value]

FreshRun ==
    /\ query = <<>>
    /\ show_comparison = TRUE
    /\ raw_docs = <<>>
    /\ query_codes = <<>>
    /\ norm_query_codes = <<>>
    /\ ranked = <<>>
    /\ final_docs = <<>>
    /\ calls = <<>>
    /\ outcome = "none"
    /\ result = NoResult
    /\ answer_baseline = <<>>
    /\ st_error = <<>>

Init ==
    /\ api_key \in ApiKeys
    /\ engine = "none"
    /\ handles = {}
    /\ pc = "main"
    /\ FreshRun
    /\ IngestIdle

\* ---------------------------------------------------- main(): init_engine()
\* cache hit: NOCEngine() is not run again
InitEngineCached ==
    /\ pc = "main"
    /\ engine = "cached"
    /\ pc' = "input"
    /\ UNCHANGED <<process_vars, query, show_comparison, solution_locals, calls,
                   outcome, result, answer_baseline, st_error>>
    /\ UNCHANGED ingest_vars

\* NOCEngine.__init__ raises ValueError; main reports it and returns
InitEngineNoKey ==
    /\ pc = "main"
    /\ engine = "none"
    /\ KeyMissing(api_key)
    /\ st_error' = <<"Failed to initialize engine: ", "GEMINI_API_KEY not found.">>
    /\ pc' = "done"
    /\ UNCHANGED <<process_vars, query, show_comparison, solution_locals, calls,
                   outcome, result, answer_baseline>>
    /\ UNCHANGED ingest_vars

\* NOCEngine.__init__ runs to its end; the engine is cached
InitEngineOk ==
    /\ pc = "main"
    /\ engine = "none"
    /\ ~KeyMissing(api_key)
    /\ handles' = handles \cup Range(HandleOrder)
    /\ engine' = "cached"
    /\ pc' = "input"
    /\ UNCHANGED <<api_key, query, show_comparison, solution_locals, calls,
                   outcome, result, answer_baseline, st_error>>
    /\ UNCHANGED ingest_vars

\* the constructor of the n-th handle raises; nothing is cached
InitEngineCtorFails ==
    /\ pc = "main"
    /\ engine = "none"
    /\ ~KeyMissing(api_key)
    /\ \E n \in DOMAIN HandleOrder, e \in Failures :
         /\ handles' = handles \cup HandlesBefore(n)
         /\ st_error' = <<"Failed to initialize engine: ">> \o e
    /\ pc' = "done"
    /\ UNCHANGED <<api_key, engine, query, show_comparison, solution_locals,
                   calls, outcome, result, answer_baseline>>
    /\ UNCHANGED ingest_vars

\* ------------------------------------------------------- main(): the widgets
\* generate_btn and query: main calls engine.get_solution(query), which
\* calls similarity_search(query, k=10)
Submit ==
    /\ pc = "input"
    /\ \E q \in Queries \ {<<>>}, cmp \in BOOLEAN :
         /\ query' = q
         /\ show_comparison' = cmp
         /\ calls' = Append(calls, Call("similarity_search", "get_solution", q))
    /\ pc' = "search"
    /\ UNCHANGED <<api_key, engine, handles, solution_locals, outcome, result,
                   answer_baseline, st_error>>
    /\ UNCHANGED ingest_vars

\* button not pressed, or empty query: the page is drawn without an answer
NoSubmit ==
    /\ pc = "input"
    /\ \E q \in Queries, btn \in BOOLEAN, cmp \in BOOLEAN :
         /\ ~(btn /\ q # <<>>)
         /\ query' = q
         /\ show_comparison' = cmp
    /\ pc' = "done"
    /\ UNCHANGED <<process_vars, solution_locals, calls, outcome, result,
                   answer_baseline, st_error>>
    /\ UNCHANGED ingest_vars

\* ------------------------------------------------------------- get_solution
\* similarity_search returns raw: lines 57-89 or 57-111
SearchReturns ==
    /\ pc = "search"
    /\ \E raw \in RawLists :
         /\ raw_docs' = raw
         /\ query_codes' = _extract_error_codes(query)
         /\ norm_query_codes' = NormalizeAll(query_codes')
         /\ ranked' = Rerank(raw_docs', query_codes')
         /\ final_docs' = Trim(ranked')
         /\ IF IsEmpty(final_docs')
            THEN /\ result' = NotFoundResult
                 /\ outcome' = "returned"
                 /\ pc' = "solved"
                 /\ calls' = Settle(calls, "returned", <<>>)
            ELSE /\ calls' = Append(Settle(calls, "returned", <<>>),
                                    Call("generate_content", "get_solution",
                                         BuildPrompt(final_docs', query)))
                 /\ pc' = "generate"
                 /\ UNCHANGED <<result, outcome>>
    /\ UNCHANGED <<process_vars, query, show_comparison, answer_baseline, st_error>>
    /\ UNCHANGED ingest_vars

\* similarity_search raises e: the except clause of get_solution
SearchRaises ==
    /\ pc = "search"
    /\ \E e \in Failures :
         /\ calls' = Settle(calls, "raised", e)
         /\ result' = ErrorResult(e)
    /\ outcome' = "returned"
    /\ pc' = "solved"
    /\ UNCHANGED <<process_vars, query, show_comparison, solution_locals,
                   answer_baseline, st_error>>
    /\ UNCHANGED ingest_vars

\* generate_content returns a response with text t: lines 113-116
GenerateReturns ==
    /\ pc = "generate"
    /\ \E t \in Completions :
         /\ calls' = Settle(calls, "returned", t)
         /\ result' = SuccessResult(t, final_docs)
    /\ outcome' = "returned"
    /\ pc' = "solved"
    /\ UNCHANGED <<process_vars, query, show_comparison, solution_locals,
                   answer_baseline, st_error>>
    /\ UNCHANGED ingest_vars

\* mutant: a failed generate_content call is tried again
GenerateRaises_Retry ==
    /\ pc = "generate"
    /\ \E e \in Failures :
         IF Len(calls) < 3
         THEN /\ calls' = Append(Settle(calls, "raised", e),
                                 Call("generate_content", "get_solution",
                                      BuildPrompt(final_docs, query)))
              /\ UNCHANGED <<result, outcome, pc>>
         ELSE /\ calls' = Settle(calls, "raised", e)
              /\ result' = ErrorResult(e)
              /\ outcome' = "returned"
              /\ pc' = "solved"
    /\ UNCHANGED <<process_vars, query, show_comparison, solution_locals,
                   answer_baseline, st_error>>
    /\ UNCHANGED ingest_vars

\* generate_content (or response.text) raises e: the except clause
GenerateRaises ==
    /\ pc = "generate"
    /\ \E e \in Failures :
         /\ calls' = Settle(calls, "raised", e)
         /\ result' = ErrorResult(e)
    /\ outcome' = "returned"
    /\ pc' = "solved"
    /\ UNCHANGED <<process_vars, query, show_comparison, solution_locals,
                   answer_baseline, st_error>>
    /\ UNCHANGED ingest_vars

\* -------------------------------------------- main(): lines 74-80 and layout
\* show_comparison: main calls engine.get_baseline_response(query)
CallBaseline ==
    /\ pc = "solved"
    /\ outcome = "returned"
    /\ show_comparison
    /\ calls' = Append(calls, Call("generate_content", "get_baseline_response",
                                   BaselinePrompt(query)))
    /\ outcome' = "none"
    /\ pc' = "baseline"
    /\ UNCHANGED <<api_key, engine, handles, query, show_comparison, solution_locals,
                   result, answer_baseline, st_error>>
    /\ UNCHANGED ingest_vars

\* comparison off: the standard view is drawn
RenderStandard ==
    /\ pc = "solved"
    /\ outcome = "returned"
    /\ ~show_comparison
    /\ pc' = "done"
    /\ UNCHANGED <<process_vars, query, show_comparison, solution_locals, calls,
                   outcome, result, answer_baseline, st_error>>
    /\ UNCHANGED ingest_vars

\* ----------------------------------------------------- get_baseline_response
\* generate_content returns text t; the split view is drawn
BaselineReturns ==
    /\ pc = "baseline"
    /\ outcome = "none"
    /\ \E t \in Completions :
         /\ calls' = Settle(calls, "returned", t)
         /\ answer_baseline' = t
    /\ outcome' = "returned"
    /\ pc' = "done"
    /\ UNCHANGED <<process_vars, query, show_comparison, solution_locals,
                   result, st_error>>
    /\ UNCHANGED ingest_vars

\* mutant: no except clause in get_baseline_response; the exception reaches
\* the except clause of main
BaselineRaises_Propagates ==
    /\ pc = "baseline"
    /\ outcome = "none"
    /\ \E e \in Failures :
         /\ calls' = Settle(calls, "raised", e)
         /\ st_error' = <<"An error occurred: ">> \o e
    /\ outcome' = "raised"
    /\ pc' = "done"
    /\ UNCHANGED <<process_vars, query, show_comparison, solution_locals,
                   result, answer_baseline>>
    /\ UNCHANGED ingest_vars

\* generate_content raises e: the except clause of get_baseline_response
BaselineRaises ==
    /\ pc = "baseline"
    /\ outcome = "none"
    /\ \E e \in Failures :
         /\ calls' = Settle(calls, "raised", e)
         /\ answer_baseline' = BaselineError(e)
    /\ outcome' = "returned"
    /\ pc' = "done"
    /\ UNCHANGED <<process_vars, query, show_comparison, solution_locals,
                   result, st_error>>
    /\ UNCHANGED ingest_vars

\* ------------------------------------------------- Streamlit reruns main()
Rerun ==
    /\ pc = "done"
    /\ pc' = "main"
    /\ query' = <<>>
    /\ show_comparison' = TRUE
    /\ raw_docs' = <<>>
    /\ query_codes' = <<>>
    /\ norm_query_codes' = <<>>
    /\ ranked' = <<>>
    /\ final_docs' = <<>>
    /\ calls' = <<>>
    /\ outcome' = "none"
    /\ result' = NoResult
    /\ answer_baseline' = <<>>
    /\ st_error' = <<>>
    /\ UNCHANGED process_vars
    /\ UNCHANGED ingest_vars

Next ==
    \/ InitEngineCached
    \/ InitEngineNoKey
    \/ InitEngineOk
    \/ InitEngineCtorFails
    \/ Submit
    \/ NoSubmit
    \/ SearchReturns
    \/ SearchRaises
    \/ GenerateReturns
    \/ GenerateRaises
    \/ CallBaseline
    \/ RenderStandard
    \/ BaselineReturns
    \/ BaselineRaises
    \/ Rerun

Spec == Init /\ [][Next]_vars

\* ------------------------------------------ _extract_error_codes on any text
\* engine._extract_error_codes(text) called on its own, as the tests do, and
\* the normalisation of line 67 applied to what it returns; the text is held
\* in query, the results in query_codes and norm_query_codes
TextAlphabet == {"a", "B", "-", "1", " ", "_"}

\* the texts of the tests
TextTwoCodes == <<"e","r","r","o","r"," ","S","-","3","0","4"," ","a","n","d"," ","E","1","0","1">>
TextLowerCode == <<"e","r","r","o","r"," ","s","3","0","4">>
TextDashes == <<"S","-","-","3","0","4"," ","s","-">>

Texts == SeqsUpTo(TextAlphabet, MaxText) \cup {TextTwoCodes, TextLowerCode, TextDashes}

InitExtract ==
    /\ api_key = [present |-> TRUE, value |-> <<"k","e","y">>]
    /\ engine = "cached"
    /\ handles = Range(HandleOrder)
    /\ pc = "extract"
    /\ query \in Texts
    /\ show_comparison = TRUE
    /\ raw_docs = <<>>
    /\ query_codes = <<>>
    /\ norm_query_codes = <<>>
    /\ ranked = <<>>
    /\ final_docs = <<>>
    /\ calls = <<>>
    /\ outcome = "none"
    /\ result = NoResult
    /\ answer_baseline = <<>>
    /\ st_error = <<>>
    /\ IngestIdle

ExtractCodes ==
    /\ pc = "extract"
    /\ query_codes' = _extract_error_codes(query)
    /\ norm_query_codes' = NormalizeAll(query_codes')
    /\ outcome' = "returned"
    /\ pc' = "extracted"
    /\ UNCHANGED <<process_vars, query, show_comparison, raw_docs, ranked, final_docs,
                   calls, result, answer_baseline, st_error>>
    /\ UNCHANGED ingest_vars

NextExtract == ExtractCodes

ExtractSpec == InitExtract /\ [][NextExtract]_vars

\* ------------------------------------------------------------ ingest_manual
Title == <<"T","i","t","l","e">>

\* doc.metadata.get(key, default)
RECURSIVE MetaGet(_, _, _)
MetaGet(metadata, key, default) ==
    IF metadata = <<>> THEN default
    ELSE IF metadata[1][1] = key THEN metadata[1][2]
    ELSE MetaGet(Tail(metadata), key, default)

\* mutant: the two headings are put the other way round
HeaderContext_Swapped(doc) ==
    MetaGet(doc.metadata, Error_Code, <<>>) \o <<" ", "-", " ">>
        \o MetaGet(doc.metadata, Category, <<>>)

\* header_context = f"{doc.metadata.get('Category', '')} - {doc.metadata.get('Error_Code', '')}"
HeaderContext(doc) ==
    MetaGet(doc.metadata, Category, <<>>) \o <<" ", "-", " ">>
        \o MetaGet(doc.metadata, Error_Code, <<>>)

\* doc.page_content = f"{header_context}\n\n{doc.page_content}"
Inject(doc) ==
    [doc EXCEPT !.page_content = HeaderContext(doc) \o <<"\n", "\n">> \o doc.page_content]

\* for doc in docs
InjectAll(chunks) == [i \in DOMAIN chunks |-> Inject(chunks[i])]

\* what the splitter can return: heading trails in the order of
\* headers_to_split_on, and the text under them
TitleItem == <<Title, <<"G","u","i","d","e">> >>
CategoryItem == <<Category, <<"H","W">> >>
ErrorCodeItem == <<Error_Code, <<"E","-","1","0","1",":"," ","P","S","U">> >>
ChunkMetadatas == {<< >>, <<TitleItem>>, <<TitleItem, CategoryItem>>,
                   <<TitleItem, CategoryItem, ErrorCodeItem>>, <<ErrorCodeItem>>}
ChunkContents == {<<"f","a","i","l","e","d">>, <<"E","-","1","0","1"," ","o","f","f">>}
Chunks == [page_content : ChunkContents, metadata : ChunkMetadatas]
SplitOutputs == SeqsUpTo(Chunks, MaxChunks)

\* the environment ingest_manual starts in
InitIngest ==
    /\ api_key \in ApiKeys
    /\ engine = "none"
    /\ handles = {}
    /\ pc = "off"
    /\ FreshRun
    /\ ipc = "start"
    /\ manual_exists \in BOOLEAN
    /\ db_exists \in BOOLEAN
    /\ io_log = <<>>
    /\ split_docs = <<>>
    /\ ingest_docs = <<>>
    /\ indexed = <<>>

\* lines 13-16
IngestMissingKey ==
    /\ ipc = "start"
    /\ KeyMissing(api_key)
    /\ ipc' = "returned"
    /\ UNCHANGED <<api_key, app_vars, manual_exists, db_exists, io_log, split_docs,
                   ingest_docs, indexed>>

\* mutant: the cleanup is done before the manual is looked for
IngestMissingManual_AfterCleanup ==
    /\ ipc = "start"
    /\ ~KeyMissing(api_key)
    /\ ~manual_exists
    /\ io_log' = IF db_exists THEN <<[op |-> "exists", found |-> TRUE],
                                     [op |-> "rmtree", found |-> TRUE]>>
                  ELSE <<[op |-> "exists", found |-> FALSE]>>
    /\ db_exists' = FALSE
    /\ ipc' = "returned"
    /\ UNCHANGED <<api_key, app_vars, manual_exists, split_docs, ingest_docs, indexed>>

\* lines 18-21
IngestMissingManual ==
    /\ ipc = "start"
    /\ ~KeyMissing(api_key)
    /\ ~manual_exists
    /\ ipc' = "returned"
    /\ UNCHANGED <<api_key, app_vars, manual_exists, db_exists, io_log, split_docs,
                   ingest_docs, indexed>>

\* lines 13-27: both checks pass; os.path.exists(db_path), and rmtree if it exists
IngestCleanup ==
    /\ ipc = "start"
    /\ ~KeyMissing(api_key)
    /\ manual_exists
    /\ io_log' = io_log \o <<[op |-> "exists", found |-> db_exists]>>
                   \o (IF db_exists THEN <<[op |-> "rmtree", found |-> db_exists]>> ELSE <<>>)
    /\ db_exists' = FALSE
    /\ ipc' = "load"
    /\ UNCHANGED <<api_key, app_vars, manual_exists, split_docs, ingest_docs, indexed>>

\* lines 13-27: shutil.rmtree raises; nothing in ingest_manual catches it
IngestCleanupFails ==
    /\ ipc = "start"
    /\ ~KeyMissing(api_key)
    /\ manual_exists
    /\ db_exists
    /\ io_log' = io_log \o <<[op |-> "exists", found |-> TRUE], [op |-> "rmtree", found |-> TRUE]>>
    /\ ipc' = "crashed"
    /\ UNCHANGED <<api_key, app_vars, manual_exists, db_exists, split_docs, ingest_docs,
                   indexed>>

\* lines 29-49: the manual is read and split, the headings are injected
IngestSplit ==
    /\ ipc = "load"
    /\ \E chunks \in SplitOutputs :
         /\ split_docs' = chunks
         /\ ingest_docs' = InjectAll(chunks)
    /\ ipc' = "store"
    /\ UNCHANGED <<api_key, app_vars, manual_exists, db_exists, io_log, indexed>>

\* lines 51-62: Chroma.from_documents(documents=docs, ...) returns
IngestStore ==
    /\ ipc = "store"
    /\ io_log' = Append(io_log, [op |-> "from_documents", found |-> db_exists])
    /\ indexed' = ingest_docs
    /\ db_exists' = TRUE
    /\ ipc' = "done"
    /\ UNCHANGED <<api_key, app_vars, manual_exists, split_docs, ingest_docs>>

\* lines 51-58: Chroma.from_documents raises; the directory may have been created
IngestStoreFails ==
    /\ ipc = "store"
    /\ io_log' = Append(io_log, [op |-> "from_documents", found |-> db_exists])
    /\ indexed' = ingest_docs
    /\ db_exists' \in BOOLEAN
    /\ ipc' = "crashed"
    /\ UNCHANGED <<api_key, app_vars, manual_exists, split_docs, ingest_docs>>

NextIngest ==
    \/ IngestMissingKey
    \/ IngestMissingManual
    \/ IngestCleanup
    \/ IngestCleanupFails
    \/ IngestSplit
    \/ IngestStore
    \/ IngestStoreFails

IngestSpec == InitIngest /\ [][NextIngest]_vars

\* =================================================================== claims
\* helpers for stating the claims
CallsBy(caller, callee) ==
    {k \in DOMAIN calls : calls[k].caller = caller /\ calls[k].callee = callee}

\* similarity_search returned in this run
SearchReturned ==
    \E k \in CallsBy("get_solution", "similarity_search") : calls[k].status = "returned"

\* get_solution was called in this run and control is back in main
SolutionReturned == pc \in {"solved", "baseline", "done"} /\ calls # <<>>

\* a collaborator call made by get_solution failed
SolutionFailed ==
    \E k \in DOMAIN calls : calls[k].caller = "get_solution" /\ calls[k].status = "raised"

Matches(doc) == IsPriority(doc, query_codes)

RECURSIVE IsSubseq(_, _)
IsSubseq(a, b) ==
    IF a = <<>> THEN TRUE
    ELSE IF b = <<>> THEN FALSE
    ELSE IF Head(a) = Head(b) THEN IsSubseq(Tail(a), Tail(b))
    ELSE IsSubseq(a, Tail(b))

MatchesFirst(list) ==
    \A i, j \in DOMAIN list : (i < j /\ Matches(list[j])) => Matches(list[i])

KeepsRawOrder(list) ==
    /\ IsSubseq(SelectSeq(list, LAMBDA d : Matches(d)),
                SelectSeq(raw_docs, LAMBDA d : Matches(d)))
    /\ IsSubseq(SelectSeq(list, LAMBDA d : ~Matches(d)),
                SelectSeq(raw_docs, LAMBDA d : ~Matches(d)))

\* C1: when the query has at least one code, in the list get_solution builds,
\* before and after the trim, every passage matching a query code precedes
\* every passage matching none, and the matching passages, and the
\* non-matching ones, are in the order they have in the raw list.
Thm_C1_PartitionLaw ==
    (SearchReturned /\ query_codes # <<>>) =>
        /\ MatchesFirst(ranked) /\ KeepsRawOrder(ranked)
        /\ MatchesFirst(final_docs) /\ KeepsRawOrder(final_docs)

\* a run where the rerank moved a later match ahead of two distinct non-matches
Wit_C1 ==
    /\ SearchReturned /\ query_codes # <<>>
    /\ Len(raw_docs) = MaxRaw
    /\ ~Matches(raw_docs[1]) /\ ~Matches(raw_docs[2]) /\ raw_docs[1] # raw_docs[2]
    /\ Matches(raw_docs[3])
    /\ ranked # raw_docs
    /\ Matches(final_docs[1]) /\ ~Matches(final_docs[2])

\* C2 as stated: with no extracted codes the list get_solution outputs equals
\* the raw list element for element.
Orig_C2_IdentityOfOutput ==
    (SearchReturned /\ query_codes = <<>>) => final_docs = raw_docs

\* C2 amended: with no extracted codes the list before the trim equals the raw
\* list element for element, and the list get_solution outputs is the first
\* min(3, n) elements of the raw list in raw order.
Thm_C2_IdentityBeforeTrim ==
    (SearchReturned /\ query_codes = <<>>) =>
        /\ ranked = raw_docs
        /\ Len(final_docs) = Min(3, Len(raw_docs))
        /\ \A i \in DOMAIN final_docs : final_docs[i] = raw_docs[i]

\* a query without codes answered from a raw list longer than the trim
Wit_C2 ==
    /\ SearchReturned /\ query_codes = <<>>
    /\ pc = "solved"
    /\ Len(raw_docs) > 3
    /\ \E i \in DOMAIN raw_docs : IsPriority(raw_docs[i], <<query>>)
    /\ result.source_documents = SubSeq(raw_docs, 1, 3)

\* C3: the supporting list of a get_solution that returned without a
\* collaborator failure has length min(3, n) for a raw list of n passages.
Thm_C3_Truncation ==
    (SolutionReturned /\ SearchReturned /\ ~SolutionFailed) =>
        Len(result.source_documents) = Min(3, Len(raw_docs))

\* a successful answer from more than three raw passages, query with a code
Wit_C3 ==
    /\ pc = "solved" /\ SearchReturned /\ ~SolutionFailed
    /\ query_codes # <<>>
    /\ Len(raw_docs) > 3
    /\ Len(result.source_documents) = 3

\* fewer than three raw passages: all of them are returned
Wit_C3_Short ==
    /\ pc = "solved" /\ SearchReturned /\ ~SolutionFailed
    /\ Len(raw_docs) = 2
    /\ Len(result.source_documents) = 2

\* the generator calls get_solution made in this run
SolutionGenCalls == CallsBy("get_solution", "generate_content")

\* C4: when the retriever returns an empty list get_solution returns the fixed
\* not-found answer with an empty supporting list and calls no generator; every
\* generator call get_solution makes has at least one passage in its prompt.
Thm_C4_NoEmptyContext ==
    /\ (SearchReturned /\ raw_docs = <<>>) =>
          /\ SolutionGenCalls = {}
          /\ pc # "generate"
          /\ SolutionReturned => result = [answer |-> <<"No relevant information found.">>,
                                           source_documents |-> <<>>]
    /\ \A k \in SolutionGenCalls :
          /\ Len(final_docs) >= 1
          /\ Contains(calls[k].arg, <<"Context Chunk ", "1", ":\n">>
                                    \o final_docs[1].page_content \o <<"\n">>)

\* the retriever returned nothing for a query with a code, and get_solution
\* is back in main with the not-found answer
Wit_C4 ==
    /\ pc = "solved" /\ SearchReturned
    /\ raw_docs = <<>> /\ query_codes # <<>>
    /\ result.answer = NotFoundAnswer
    /\ Len(calls) = 1

\* C5: when the retriever call or the generator call of get_solution fails,
\* get_solution returns (it does not raise) a result whose answer is the marker
\* "Error processing request" followed by the description of the failure and
\* whose supporting list is empty, also when passages had been retrieved.
Thm_C5_FailureContainment ==
    \A k \in DOMAIN calls :
        (calls[k].caller = "get_solution" /\ calls[k].status = "raised") =>
            /\ SolutionReturned
            /\ pc = "solved" => outcome = "returned"
            /\ st_error = <<>>
            /\ result.answer = <<"Error processing request: ">> \o calls[k].value
            /\ result.source_documents = <<>>

\* the generator failed after three passages had been put in its prompt
Wit_C5 ==
    /\ pc = "solved"
    /\ Len(final_docs) = 3
    /\ \E k \in SolutionGenCalls : calls[k].status = "raised" /\ calls[k].value # <<>>
    /\ result.source_documents = <<>>

\* the retriever failed
Wit_C5_Retriever ==
    /\ pc = "solved"
    /\ calls[1].callee = "similarity_search" /\ calls[1].status = "raised"
    /\ result.answer = ErrorMarker \o <<"DB Connection Failed">>

\* first position at which sub occurs in text, 0 if it does not occur
FirstIndex(text, sub) ==
    LET at == {i \in 1..(Len(text) - Len(sub) + 1) : SubSeq(text, i, i + Len(sub) - 1) = sub}
    IN  IF at = {} THEN 0 ELSE CHOOSE i \in at : \A j \in at : i <= j

Count(text, fragment) == Cardinality({i \in DOMAIN text : text[i] = fragment})

Labelled(i, doc) ==
    <<"Context Chunk ", DigitChars[i + 1], ":\n">> \o doc.page_content \o <<"\n">>

\* C6: when the reranked list is not empty and no collaborator fails,
\* get_solution calls the generator exactly once; the prompt holds each of the
\* at most 3 passages labelled with its 1-based rank, in reranked order, and
\* then the query verbatim; the result is the generator's text unchanged with
\* exactly the passages of the prompt in the same order.
Thm_C6_ComposeOnce ==
    (SolutionReturned /\ SearchReturned /\ final_docs # <<>> /\ ~SolutionFailed) =>
        /\ Cardinality(SolutionGenCalls) = 1
        /\ \A k \in SolutionGenCalls :
             LET p == calls[k].arg
             IN  /\ Len(final_docs) <= 3
                 /\ Count(p, "Context Chunk ") = Len(final_docs)
                 /\ \A i \in DOMAIN final_docs :
                      /\ FirstIndex(p, Labelled(i, final_docs[i])) > 0
                      /\ i > 1 => FirstIndex(p, Labelled(i - 1, final_docs[i - 1]))
                                    < FirstIndex(p, Labelled(i, final_docs[i]))
                      /\ FirstIndex(p, Labelled(i, final_docs[i]))
                           < FirstIndex(p, <<"Question: ">> \o query)
                 /\ FirstIndex(p, <<"Question: ">> \o query) > 0
                 /\ final_docs = SubSeq(ranked, 1, Len(final_docs))
                 /\ result.answer = calls[k].value
                 /\ result.source_documents = final_docs

\* an answer composed from three reranked passages, the first two distinct
Wit_C6 ==
    /\ pc = "solved" /\ ~SolutionFailed
    /\ Len(final_docs) = 3 /\ final_docs[1] # final_docs[2]
    /\ ranked # raw_docs
    /\ result.answer \in Completions
    /\ result.source_documents = final_docs

BaselineCalls == {k \in DOMAIN calls : calls[k].caller = "get_baseline_response"}

\* C7: get_baseline_response builds its prompt from the query alone, calls no
\* retriever, calls the generator once and returns its text as it is.
Thm_C7_BaselineNoPassage ==
    /\ Cardinality(BaselineCalls) <= 1
    /\ pc = "baseline" => Cardinality(BaselineCalls) = 1
    /\ \A k \in BaselineCalls :
         /\ calls[k].callee = "generate_content"
         /\ Count(calls[k].arg, "Context Chunk ") = 0
         /\ Len(calls[k].arg) = Len(query) + 2
         /\ SubSeq(calls[k].arg, 2, Len(query) + 1) = query
         /\ Cardinality(CallsBy("get_solution", "similarity_search")) = 1
         /\ calls[k].status = "returned" => answer_baseline = calls[k].value

\* a baseline answer returned in a run whose get_solution had passages
Wit_C7 ==
    /\ pc = "done"
    /\ final_docs # <<>>
    /\ \E k \in BaselineCalls : calls[k].status = "returned"
    /\ answer_baseline \in Completions

\* C8: a failure of the generator call in get_baseline_response is caught and
\* returned as an error string carrying the description of the failure;
\* get_baseline_response does not raise.
Thm_C8_BaselineContainment ==
    \A k \in BaselineCalls :
        calls[k].status = "raised" =>
            /\ pc = "done"
            /\ outcome = "returned"
            /\ st_error = <<>>
            /\ Head(answer_baseline) = "Error generating baseline: "
            /\ Tail(answer_baseline) = calls[k].value

\* the baseline generator call failed after get_solution had succeeded
Wit_C8 ==
    /\ pc = "done"
    /\ \E k \in BaselineCalls : calls[k].status = "raised"
    /\ result.answer \in Completions
    /\ answer_baseline = BaselineMarker \o <<"429 quota exceeded">>

\* C9: with GEMINI_API_KEY missing or empty NOCEngine() raises before any
\* handle is created, no engine exists, main reports the failure, and no query
\* reaches get_solution or get_baseline_response; a run of main whose
\* initialization failed makes no engine call.
Thm_C9_ConfigFatal ==
    /\ (~api_key.present \/ api_key.value = <<>>) =>
          /\ engine = "none"
          /\ handles = {}
          /\ calls = <<>>
          /\ pc \in {"main", "done"}
          /\ pc = "done" => st_error = <<"Failed to initialize engine: ",
                                         "GEMINI_API_KEY not found.">>
    /\ st_error # <<>> =>
          /\ Head(st_error) = "Failed to initialize engine: "
          /\ pc = "done"
          /\ calls = <<>>

\* main has returned after NOCEngine() refused an empty credential
Wit_C9 ==
    /\ api_key.present /\ api_key.value = <<>>
    /\ pc = "done"
    /\ st_error # <<>>

\* C10 as stated: when no passages are found, or when no codes are extracted
\* from the query, get_solution ends with the fixed not-found message.
Orig_C10_EmptyResult ==
    (pc = "solved" /\ SearchReturned /\ (raw_docs = <<>> \/ query_codes = <<>>)) =>
        result.answer = <<"No relevant information found.">>

\* C10 amended: when no passages are found get_solution ends, without error,
\* with the fixed not-found message and an empty supporting list; when no
\* codes are extracted but passages were found it does not end there: it calls
\* the generator with the first min(3, n) raw passages and ends with the
\* generator's text, or with the error result if the generator fails.
Thm_C10_EmptyResult ==
    (pc = "solved" /\ SearchReturned) =>
        /\ raw_docs = <<>> =>
              /\ result.answer = <<"No relevant information found.">>
              /\ result.source_documents = <<>>
              /\ \A k \in DOMAIN calls : calls[k].status = "returned"
        /\ (raw_docs # <<>> /\ query_codes = <<>>) =>
              /\ result.answer # <<"No relevant information found.">>
              /\ \E k \in SolutionGenCalls :
                   /\ Count(calls[k].arg, "Context Chunk ") = Min(3, Len(raw_docs))
                   /\ result \in {[answer |-> calls[k].value,
                                   source_documents |-> SubSeq(raw_docs, 1, Min(3, Len(raw_docs)))],
                                  [answer |-> <<"Error processing request: ">> \o calls[k].value,
                                   source_documents |-> <<>>]}

\* nothing retrieved for a query without codes
Wit_C10 ==
    /\ pc = "solved" /\ SearchReturned
    /\ raw_docs = <<>> /\ query_codes = <<>>
    /\ result = NotFoundResult

\* passages retrieved for a query without codes, answered by the generator
Wit_C10_NoCodes ==
    /\ pc = "solved" /\ SearchReturned
    /\ raw_docs # <<>> /\ query_codes = <<>>
    /\ result.answer \in Completions

\* text with its hyphens removed and its letters upper-cased
Normalised(s) == Upper(SelectSeq(s, LAMBDA c : c # "-"))

\* some normalised query code occurs somewhere in the normalised content plus
\* rendered metadata of doc
ContainsSomeCode(doc) ==
    LET blob == Normalised(doc.page_content \o StrMetadata(doc.metadata))
    IN  \E n \in DOMAIN query_codes :
          LET code == Normalised(query_codes[n])
          IN  \E p \in 1..(Len(blob) - Len(code) + 1) :
                \A q \in DOMAIN code : blob[p + q - 1] = code[q]

\* C11 as stated: for the raw list [E-101 passage, S-304 passage] and a query
\* made of the code 304, the output of get_solution starts with the S-304
\* passage.
Orig_C11_BareNumber ==
    (SearchReturned /\ query = <<"3","0","4">> /\ raw_docs = <<DocE101, DocS304>>) =>
        final_docs[1] = DocS304

\* C11 amended: a passage is a match iff its normalised content plus rendered
\* metadata contains some normalised query code as a substring, not as a whole
\* token (code E10 matches a passage tagged E-101, code S-304 matches a
\* passage whose metadata alone holds S-304); for the raw list
\* [E-101 passage, S-304 passage] and a query with the code S-304 the output
\* starts with the S-304 passage; a bare number such as 304 is not extracted
\* as a code, so for the query 304 the output keeps the raw order.
Thm_C11_SubstringMatch ==
    SearchReturned =>
        /\ query_codes # <<>> =>
             LET m == Cardinality({i \in DOMAIN raw_docs : ContainsSomeCode(raw_docs[i])})
             IN  \A i \in DOMAIN ranked : ContainsSomeCode(ranked[i]) <=> i <= m
        /\ (query = QueryFixS304 /\ raw_docs = <<DocE101, DocS304>>) =>
             final_docs = <<DocS304, DocE101>>
        /\ (query = QueryE10 /\ raw_docs = <<DocS304, DocE101>>) =>
             final_docs = <<DocE101, DocS304>>
        /\ query = Query304 =>
             /\ query_codes = <<>>
             /\ raw_docs = <<DocE101, DocS304>> => final_docs = <<DocE101, DocS304>>

\* the S-304 passage, which holds its code in the metadata only, was moved
\* ahead of the E-101 passage
Wit_C11 ==
    /\ pc = "solved" /\ SearchReturned
    /\ query = QueryFixS304
    /\ raw_docs = <<DocE101, DocS304>>
    /\ result.source_documents = <<DocS304, DocE101>>

\* t is one or more letters, an optional hyphen, one or more digits
IsCodeShape(t) ==
    \E a \in 1..Len(t), h \in {0, 1} :
        /\ a + h < Len(t)
        /\ \A n \in 1..a : t[n] \in Letters
        /\ h = 1 => t[a + 1] = "-"
        /\ \A n \in (a + h + 1)..Len(t) : t[n] \in Digits

WordChar(c) == c \in Letters \cup Digits \cup {"_"}

\* the spans <<first, last>> of text that have the shape of a code and a word
\* edge on both sides
CodeSpans(text) ==
    {span \in (DOMAIN text) \X (DOMAIN text) :
        /\ span[1] <= span[2]
        /\ IsCodeShape(SubSeq(text, span[1], span[2]))
        /\ span[1] = 1 \/ ~WordChar(text[span[1] - 1])
        /\ span[2] = Len(text) \/ ~WordChar(text[span[2] + 1])}

\* the n-th span from the left
NthSpan(spans, n) ==
    CHOOSE span \in spans : Cardinality({other \in spans : other[1] < span[1]}) = n - 1

\* C12: _extract_error_codes returns, from left to right and with the case
\* kept, exactly the substrings of the text that are letters, an optional
\* hyphen and digits between word edges; they do not overlap; a code inside a
\* larger alphanumeric token is not returned; a text without such a token
\* gives the empty sequence.
Thm_C12_Extractor ==
    pc = "extracted" =>
        LET spans == CodeSpans(query)
        IN  /\ outcome = "returned"
            /\ \A s1, s2 \in spans : s1 # s2 => (s1[2] < s2[1] \/ s2[2] < s1[1])
            /\ Len(query_codes) = Cardinality(spans)
            /\ \A n \in DOMAIN query_codes :
                 query_codes[n] = SubSeq(query, NthSpan(spans, n)[1], NthSpan(spans, n)[2])
            /\ query = TextTwoCodes =>
                 query_codes = << <<"S","-","3","0","4">>, <<"E","1","0","1">> >>
            /\ query = TextLowerCode => query_codes = << <<"s","3","0","4">> >>
            /\ query \in {<<"a","1","B">>, <<"_","a","1">>, <<"a","-","-","1">>, <<"a"," ","1">>} =>
                 query_codes = <<>>

\* two codes, one with a hyphen and one without, taken from one text
Wit_C12 ==
    /\ pc = "extracted"
    /\ Len(query_codes) = 2
    /\ "-" \in Range(query_codes[1])
    /\ "-" \notin Range(query_codes[2])

\* a code-like run inside a larger token gives nothing
Wit_C12_Embedded ==
    /\ pc = "extracted"
    /\ query = <<"a","1","B">>
    /\ query_codes = <<>>

CodeS304Hyphen == <<"S","-","3","0","4">>
CodeS304Lower == <<"s","3","0","4">>

\* C13: normalising (hyphens removed, then upper-cased) a normalised code, or
\* any normalised text, gives it back unchanged; "S-304" and "s304" both
\* normalise to "S304", and the reranker, which compares normalised forms,
\* treats the two as the same code.
Thm_C13_NormaliseIdempotent ==
    pc = "extracted" =>
        /\ Len(norm_query_codes) = Len(query_codes)
        /\ \A n \in DOMAIN norm_query_codes :
             /\ Normalize(norm_query_codes[n]) = norm_query_codes[n]
             /\ \A d \in Passages :
                  IsPriority(d, <<query_codes[n]>>) = IsPriority(d, <<norm_query_codes[n]>>)
        /\ Normalize(Normalize(query)) = Normalize(query)
        /\ query = TextTwoCodes => norm_query_codes[1] = <<"S","3","0","4">>
        /\ query = TextLowerCode =>
             /\ norm_query_codes = << <<"S","3","0","4">> >>
             /\ \A d \in Passages :
                  IsPriority(d, <<CodeS304Hyphen>>) = IsPriority(d, query_codes)
             /\ Rerank(<<DocE101, DocS304, DocFan>>, <<CodeS304Hyphen>>)
                  = Rerank(<<DocE101, DocS304, DocFan>>, query_codes)
             /\ Rerank(<<DocE101, DocS304, DocFan>>, query_codes) = <<DocS304, DocFan, DocE101>>

\* a code with a lower-case letter and a hyphen was extracted and normalised
Wit_C13 ==
    /\ pc = "extracted"
    /\ \E n \in DOMAIN query_codes :
         /\ "-" \in Range(query_codes[n])
         /\ "a" \in Range(query_codes[n])
         /\ "-" \notin Range(norm_query_codes[n])
         /\ "A" \in Range(norm_query_codes[n])

\* s304 was extracted from the text of the test and normalised to S304
Wit_C13_Lower ==
    /\ pc = "extracted"
    /\ query_codes = <<CodeS304Lower>>
    /\ norm_query_codes = << <<"S","3","0","4">> >>

\* C14: a submitted query causes at most one retrieval call, with k = 10, and
\* at most two generation calls, one after the other: the one of get_solution
\* first, the one of get_baseline_response second and only with the comparison
\* toggle on; a call that failed is not made again, and its failure is in the
\* result of the same request.
Thm_C14_CallBudget ==
    /\ Cardinality({i \in DOMAIN calls : calls[i].callee = "similarity_search"}) <= 1
    /\ Cardinality({i \in DOMAIN calls : calls[i].callee = "generate_content"}) <= 2
    /\ Cardinality(SolutionGenCalls) <= 1
    /\ Cardinality(BaselineCalls) <= 1
    /\ \A i \in DOMAIN calls :
         /\ i < Len(calls) => calls[i].status # "pending"
         /\ calls[i].callee = "similarity_search" =>
              i = 1 /\ calls[i].k = 10 /\ calls[i].arg = query
         /\ calls[i].caller = "get_solution" /\ calls[i].callee = "generate_content" =>
              i = 2 /\ calls[1].status = "returned"
         /\ calls[i].caller = "get_baseline_response" =>
              /\ i = Len(calls) /\ i > 1
              /\ show_comparison
              /\ calls[i].callee = "generate_content"
         /\ calls[i].status = "raised" =>
              /\ \A j \in DOMAIN calls :
                   j > i => calls[j].caller # calls[i].caller
              /\ IF calls[i].caller = "get_solution"
                 THEN result.answer = <<"Error processing request: ">> \o calls[i].value
                 ELSE answer_baseline = <<"Error generating baseline: ">> \o calls[i].value
    /\ (pc = "done" /\ calls # <<>> /\ ~show_comparison) => BaselineCalls = {}

\* one retrieval, a failed generation and then the baseline generation
Wit_C14 ==
    /\ pc = "done"
    /\ Len(calls) = 3
    /\ calls[1].callee = "similarity_search" /\ calls[1].status = "returned"
    /\ calls[2].status = "raised"
    /\ calls[3].caller = "get_baseline_response" /\ calls[3].status = "returned"

\* toggle off: the request ends after the calls of get_solution
Wit_C14_NoBaseline ==
    /\ pc = "done"
    /\ ~show_comparison
    /\ Len(calls) = 2

LogIndexes(op) == {i \in DOMAIN io_log : io_log[i].op = op}

\* C15: ingest_manual removes ./chroma_db at most once, only when it exists and
\* only after the credential and the manual have been found, and before the
\* single call of Chroma.from_documents; a run that ends normally has called
\* from_documents exactly once, after removing the directory it found; with the
\* credential or the manual missing it returns without removing the directory
\* and without calling from_documents.
Thm_C15_RebuildOnlyWhenReady ==
    /\ Cardinality(LogIndexes("rmtree")) <= 1
    /\ Cardinality(LogIndexes("from_documents")) <= 1
    /\ \A i \in LogIndexes("rmtree") :
         /\ io_log[i].found
         /\ i > 1 /\ io_log[i - 1] = [op |-> "exists", found |-> TRUE]
         /\ api_key.present /\ api_key.value # <<>>
         /\ manual_exists
         /\ \A j \in LogIndexes("from_documents") : i < j
    /\ ipc = "done" =>
         /\ Cardinality(LogIndexes("from_documents")) = 1
         /\ io_log[1].op = "exists"
         /\ io_log[1].found <=> LogIndexes("rmtree") # {}
         /\ ~io_log[Len(io_log)].found
    /\ (~api_key.present \/ api_key.value = <<>> \/ ~manual_exists) =>
         /\ io_log = <<>>
         /\ ipc \in {"start", "returned"}
         /\ indexed = <<>>
    /\ ipc = "returned" =>
         (~api_key.present \/ api_key.value = <<>> \/ ~manual_exists)

\* a finished run that removed the old directory and then built the index
Wit_C15 ==
    /\ ipc = "done"
    /\ Len(io_log) = 3
    /\ io_log[2].op = "rmtree"
    /\ io_log[3].op = "from_documents"
    /\ indexed # <<>>

\* the manual is missing while the credential and the directory are there
Wit_C15_NoManual ==
    /\ ipc = "returned"
    /\ ~KeyMissing(api_key) /\ ~manual_exists
    /\ db_exists /\ io_log = <<>>

\* the value under key in a heading trail, or the empty string
ValueOf(metadata, key) ==
    IF \E n \in DOMAIN metadata : metadata[n][1] = key
    THEN metadata[CHOOSE n \in DOMAIN metadata : metadata[n][1] = key][2]
    ELSE <<>>

\* C16: each passage given to the index has the content the splitter gave it,
\* prefixed with "<Category> - <Error_Code>" of its own metadata (the empty
\* string for a missing key) and a blank line; its metadata is unchanged; so
\* the indexed text of a passage with an Error_Code heading contains that code.
Thm_C16_HeaderInjection ==
    LogIndexes("from_documents") # {} =>
        /\ Len(indexed) = Len(split_docs)
        /\ \A i \in DOMAIN indexed :
             LET cat == ValueOf(split_docs[i].metadata, Category)
                 code == ValueOf(split_docs[i].metadata, Error_Code)
             IN  /\ indexed[i].metadata = split_docs[i].metadata
                 /\ indexed[i].page_content
                      = cat \o <<" ", "-", " ">> \o code \o <<"\n", "\n">>
                            \o split_docs[i].page_content
                 /\ code # <<>> => FirstIndex(indexed[i].page_content, code) > 0

\* a passage under an error-code heading whose prose does not hold the code,
\* and a passage without headings, were indexed together
Wit_C16 ==
    /\ ipc = "done"
    /\ Len(indexed) = 2
    /\ split_docs[1].metadata = <<TitleItem, CategoryItem, ErrorCodeItem>>
    /\ FirstIndex(split_docs[1].page_content, <<"E","-","1","0","1">>) = 0
    /\ FirstIndex(indexed[1].page_content, <<"E","-","1","0","1">>) > 0
    /\ split_docs[2].metadata = << >>
    /\ SubSeq(indexed[2].page_content, 1, 5) = <<" ", "-", " ", "\n", "\n">>

\* C17: the list before the trim is a permutation of the raw list: every
\* retrieved passage occurs in it as often as in the raw list, unaltered; the
\* supporting list holds only retrieved passages; when the query has codes
\* and no retrieved passage matches one, the output is the first min(3, n) raw
\* passages in raw order, and the generator is called with them.
Thm_C17_ReorderOnly ==
    SearchReturned =>
        /\ Len(ranked) = Len(raw_docs)
        /\ \A d \in Range(ranked) \cup Range(raw_docs) : Count(ranked, d) = Count(raw_docs, d)
        /\ Range(final_docs) \subseteq Range(raw_docs)
        /\ Range(result.source_documents) \subseteq Range(raw_docs)
        /\ (query_codes # <<>> /\ \A i \in DOMAIN raw_docs : ~ContainsSomeCode(raw_docs[i])) =>
             /\ Len(final_docs) = Min(3, Len(raw_docs))
             /\ \A i \in DOMAIN final_docs : final_docs[i] = raw_docs[i]
             /\ raw_docs # <<>> =>
                  /\ Cardinality(SolutionGenCalls) = 1
                  /\ \A k \in SolutionGenCalls : \A i \in DOMAIN final_docs :
                       FirstIndex(calls[k].arg, Labelled(i, raw_docs[i])) > 0

\* a query whose code matches none of four retrieved passages, answered from
\* the first three
Wit_C17 ==
    /\ pc = "solved"
    /\ query = QueryX9 /\ query_codes # <<>>
    /\ Len(raw_docs) = 4 /\ raw_docs[1] # raw_docs[2]
    /\ result.source_documents = SubSeq(raw_docs, 1, 3)
    /\ result.answer \in Completions

\* a reordered list that repeats a passage
Wit_C17_Duplicate ==
    /\ SearchReturned
    /\ ranked # raw_docs
    /\ \E d \in Range(raw_docs) : Count(ranked, d) = 2
====
